---------------------------- MODULE Spec2Model ----------------------------
(***************************************************************************)
(* A model of the dual-state particle scene: App (treeState), Overlay      *)
(* (toggle buttons), Foliage / OrnamentGroup / CameraRig / GoldenDust /    *)
(* BackgroundStars (frame callbacks) and utils/math (point generators).    *)
(*                                                                         *)
(* Number representation.  The program computes in IEEE doubles; the model *)
(* computes in decimal fixed point and rounds every product to nearest:    *)
(*   progress, easeT, scale, rotation ... micro-units (1e-6)               *)
(*   positions, radii, sin/cos values ... milli-units (1e-3)               *)
(*   angles                           ... milli-radians                    *)
(*   Math.random() results            ... per-mille, 0..999                *)
(*   frame delta and clock time       ... ticks of 1/180 second             *)
(***************************************************************************)
EXTENDS Integers, Sequences, FiniteSets, TLC

(***************************************************************************)
(* Fixed-point helpers                                                     *)
(***************************************************************************)
Micro == 1000 * 1000
Milli == 10 * 100
TicksPerSecond == 18 * 10

Abs(x) == IF x < 0 THEN -x ELSE x

Sign(x) == IF x < 0 THEN -1 ELSE 1

RECURSIVE Gcd(_, _)
Gcd(a, b) == IF b = 0 THEN a ELSE Gcd(b, a % b)

\* n / d rounded to the nearest integer, halves away from zero (d > 0)
DivRound(n, d) == Sign(n) * ((2 * Abs(n) + d) \div (2 * d))

\* a * num / den rounded to nearest, without forming a * num when a is large
MulDiv(a, num, den) ==
    LET g  == Gcd(Abs(num), den)
        n1 == num \div (IF g = 0 THEN 1 ELSE g)
        d1 == den \div (IF g = 0 THEN 1 ELSE g)
        s  == Sign(a) * Sign(n1)
        q  == Abs(a) \div d1
        r  == Abs(a) % d1
    IN  s * (q * Abs(n1) + DivRound(r * Abs(n1), d1))

\* a * b / 1000: a product with a milli / per-mille factor
MMul(a, b) == MulDiv(a, b, Milli)

\* a * b / 10^6 for two micro-unit values, by limbs of 1000 (no overflow)
FMul(a, b) ==
    LET aa == Abs(a)
        bb == Abs(b)
        ah == aa \div Milli
        al == aa % Milli
        bh == bb \div Milli
        bl == bb % Milli
        lo == DivRound(al * bl, Milli)
    IN  Sign(a) * Sign(b) * (ah * bh + DivRound(ah * bl + al * bh + lo, Milli))

(***************************************************************************)
(* Math library functions used by the program                              *)
(***************************************************************************)
PiMilli == 3142

\* sin of an angle in [0, pi] (milli-radians), result in milli-units
SinHalf(a) ==
    LET p == a * (PiMilli - a)
    IN  (16 * p) \div ((5 * PiMilli * PiMilli - 4 * p) \div Milli)

\* Math.sin, angle in milli-radians, result in milli-units
Sin(a) ==
    LET m == a % (2 * PiMilli)
    IN  IF m <= PiMilli THEN SinHalf(m) ELSE -SinHalf(m - PiMilli)

\* Math.cos
Cos(a) == Sin(a + PiMilli \div 2)

\* the least a in lo..hi with Cos(a) <= x (Cos falls from 1 to -1 on [0, pi])
RECURSIVE AcosSearch(_, _, _)
AcosSearch(x, lo, hi) ==
    IF lo >= hi THEN lo
    ELSE LET mid == (lo + hi) \div 2
         IN  IF Cos(mid) <= x THEN AcosSearch(x, lo, mid) ELSE AcosSearch(x, mid + 1, hi)

\* Math.acos of x in [-1000, 1000] (milli), result in [0, pi] milli-radians
Acos(x) == AcosSearch(x, 0, PiMilli)

\* the greatest r in lo..hi with r^n <= v, for n = 2 or 3
RECURSIVE RootSearch(_, _, _, _)
RootSearch(n, v, lo, hi) ==
    IF lo >= hi THEN lo
    ELSE LET mid == (lo + hi + 1) \div 2
             pow == IF n = 2 THEN mid * mid ELSE mid * mid * mid
         IN  IF pow <= v THEN RootSearch(n, v, mid, hi) ELSE RootSearch(n, v, lo, mid - 1)

\* Math.sqrt of a per-mille value, result per-mille
Sqrt(w) == RootSearch(2, w * Milli, 0, Milli)

\* Math.cbrt of a per-mille value, result per-mille
Cbrt(w) == RootSearch(3, w * Micro, 0, Milli)

\* THREE.MathUtils.lerp(x, y, t) = (1 - t) * x + t * y, t in micro-units
Lerp(x, y, t) == DivRound(FMul(Micro - t, x * Milli) + FMul(t, y * Milli), Milli)

\* a micro-unit factor times a milli-unit value, result in milli-units
Scaled(f, x) == DivRound(FMul(f, x * Milli), Milli)

(***************************************************************************)
(* utils/math.ts                                                           *)
(***************************************************************************)
TREE_HEIGHT == 12000
TREE_RADIUS_BASE == 5500
SCATTER_RADIUS == 18000
DefaultYOffset == -5000
GoldenAngleMilli == 2400

\* getRandomSpherePoint; u, v, w are its three Math.random() results
getRandomSpherePoint(radius, u, v, w) ==
    LET theta == MMul(2 * PiMilli, u)
        phi   == Acos(2 * v - Milli)
        r     == MMul(Cbrt(w), radius)
        x     == MMul(MMul(r, Sin(phi)), Cos(theta))
        y     == MMul(MMul(r, Sin(phi)), Sin(theta))
        z     == MMul(r, Cos(phi))
    IN  <<x, y, z>>

\* getTreePoint; h, a, s are its three Math.random() results
getTreePoint(height, radiusBase, yOffset, h, a, s) ==
    LET y             == MMul(h, height)
        currentRadius == MMul(Milli - h, radiusBase)
        angle         == MMul(a, 2 * PiMilli)
        r             == MMul(Sqrt(s), currentRadius)
        x             == MMul(r, Cos(angle))
        z             == MMul(r, Sin(angle))
    IN  <<x, y + yOffset, z>>

\* a JavaScript number: finite (v is its fixed-point value), NaN, or an
\* infinity (v is its sign)
Finite(v) == [kind |-> "finite", v |-> v]
NaN == [kind |-> "NaN", v |-> 0]
Infinity(s) == [kind |-> "Infinity", v |-> s]

\* a / b for two integers, in micro-units when finite: x / 0 is an infinity
\* and 0 / 0 is NaN
Divide(a, b) ==
    IF b = 0 THEN (IF a = 0 THEN NaN ELSE Infinity(Sign(a)))
    ELSE Finite(MulDiv(Sign(b) * Micro, a, Abs(b)))

\* d * n for a number d and a finite n; prod is the product when d is finite
Times(d, n, prod) ==
    IF d.kind = "finite" THEN Finite(prod)
    ELSE IF d.kind = "NaN" \/ n = 0 THEN NaN
    ELSE Infinity(d.v * Sign(n))

\* d + n for a number d and a finite n
Plus(d, n) == IF d.kind = "finite" THEN Finite(d.v + n) ELSE d

\* 1 - d for a number d in micro-units
OneMinus(d) ==
    IF d.kind = "finite" THEN Finite(Micro - d.v)
    ELSE IF d.kind = "NaN" THEN NaN
    ELSE Infinity(-d.v)

\* the fixed-point values of a point whose coordinates are finite
Values(point) == [k \in DOMAIN point |-> point[k].v]

\* getTreeSpiralPoint: the coordinates are numbers that may be NaN or infinite,
\* since t / totalPoints is not guarded
getTreeSpiralPoint(t, totalPoints, height, radiusBase, yOffset) ==
    LET hRatio == Divide(t, totalPoints)
        y      == Plus(Times(hRatio, height, Scaled(hRatio.v, height)), yOffset)
        rest   == OneMinus(hRatio)
        r      == Times(rest, radiusBase, Scaled(rest.v, radiusBase))
        angle  == t * GoldenAngleMilli
        x      == Times(r, Cos(angle), MMul(r.v, Cos(angle)))
        z      == Times(r, Sin(angle), MMul(r.v, Sin(angle)))
    IN  <<x, y, z>>

(***************************************************************************)
(* Math.random(): the generator returns a stream of per-mille values; each  *)
(* render pass that builds a dataset reads the next segment of the stream, *)
(* and Rand(seed, j) is the j-th value of segment seed.  The model tells   *)
(* MaxSeed segments apart (the stream repeats after that).                 *)
(***************************************************************************)
MaxSeed == 2

Seeds == 1..MaxSeed

RandValues == <<0, 125, 250, 375, 500, 625, 750, 875>>

Rand(seed, j) == RandValues[((seed * 3 + j * 5 + (j \div 3)) % Len(RandValues)) + 1]

(***************************************************************************)
(* Ornaments: OrnamentGroup dataset (useMemo)                              *)
(***************************************************************************)
DefaultColor == "#d4af37"
ExclusionColor == "#8a0000"

giftPalette == <<"#8a0000", "#8B4513", "#F5F5F5", "#D4AF37", "#D4AF37", "#064e3b">>
spherePalette == <<"#ffc125", "#ffc125", "#ffc125", "#8a0000", "#ffffff">>

\* an optional prop: present = FALSE is the prop left out (undefined)
Some(colors) == [present |-> TRUE, colors |-> colors]
Absent == [present |-> FALSE, colors |-> <<>>]

\* JavaScript array read arr[i]: undefined outside 0..length-1
ArrayGet(arr, i) == IF i \in 0..(Len(arr) - 1) THEN arr[i + 1] ELSE "undefined"

\* Math.floor(Math.random() * n)
RandomIndex(u, n) == (u * n) \div Milli

\* the Math.random() call sites of one loop iteration, in source order
SlotNames == <<"scatterU", "scatterV", "scatterW", "jitterX", "jitterZ", "color",
               "boxW", "boxH", "boxD", "boxBase", "sphereBase", "roll", "large",
               "medium", "rotX", "rotY", "speed", "offset">>
Slots == {SlotNames[k] : k \in 1..Len(SlotNames)}

PickColorNoLengthCheck(palette, u) ==
    IF palette.present
    THEN ArrayGet(palette.colors, RandomIndex(u, Len(palette.colors)))
    ELSE DefaultColor

\* colorHex: pick random color from palette if exists
PickColor(palette, u) ==
    IF palette.present /\ Len(palette.colors) > 0
    THEN ArrayGet(palette.colors, RandomIndex(u, Len(palette.colors)))
    ELSE DefaultColor

SphereScaleNoExclusion(colorHex, scaleBase, rnd) ==
    LET small == scaleBase * (800 + MMul(rnd["sphereBase"], 400))
    IN  IF rnd["roll"] < 40
        THEN scaleBase * (2200 + MMul(rnd["large"], 200))
        ELSE IF rnd["roll"] < 200
             THEN scaleBase * (1400 + MMul(rnd["medium"], 400))
             ELSE small

\* itemScaleBase of a SPHERE: stratified sizing (scaleBase in milli, result micro)
SphereScale(colorHex, scaleBase, rnd) ==
    LET small == scaleBase * (800 + MMul(rnd["sphereBase"], 400))
    IN  IF colorHex # ExclusionColor
        THEN IF rnd["roll"] < 40
             THEN scaleBase * (2200 + MMul(rnd["large"], 200))
             ELSE IF rnd["roll"] < 200
                  THEN scaleBase * (1400 + MMul(rnd["medium"], 400))
                  ELSE small
        ELSE small

\* itemScaleBase of a BOX: standard variation
BoxScale(scaleBase, rnd) == scaleBase * (800 + MMul(rnd["boxBase"], 400))

\* one iteration of the useMemo loop: the record pushed for index i
BuildItem(i, count, type, scaleBase, palette, rnd) ==
    LET scatter  == getRandomSpherePoint(SCATTER_RADIUS, rnd["scatterU"],
                                         rnd["scatterV"], rnd["scatterW"])
        spiral   == Values(getTreeSpiralPoint(i, count, TREE_HEIGHT,
                        MulDiv(TREE_RADIUS_BASE, IF type = "BOX" THEN 8 ELSE 9, 10),
                        DefaultYOffset))
        tree     == <<spiral[1] + MMul(rnd["jitterX"] - 500, 500),
                      spiral[2],
                      spiral[3] + MMul(rnd["jitterZ"] - 500, 500)>>
        colorHex == PickColor(palette, rnd["color"])
        scaleVec == IF type = "BOX"
                    THEN <<800 + MMul(rnd["boxW"], 400),
                           600 + MMul(rnd["boxH"], 600),
                           800 + MMul(rnd["boxD"], 400)>>
                    ELSE <<Milli, Milli, Milli>>
        scale    == IF type = "BOX" THEN BoxScale(scaleBase, rnd)
                    ELSE SphereScale(colorHex, scaleBase, rnd)
    IN  [id |-> i, type |-> type, scatter |-> scatter, tree |-> tree,
         scale |-> scale,
         rotation |-> <<MMul(rnd["rotX"], PiMilli), MMul(rnd["rotY"], PiMilli), 0>>,
         color |-> colorHex,
         speed |-> 200 + MMul(rnd["speed"], 500),
         offset |-> rnd["offset"] * 100,
         scaleVector |-> scaleVec]

\* the Math.random() results of loop iteration i when the generator runs stream seed
StreamDraws(seed, base, i) ==
    [n \in Slots |->
        Rand(seed, base + i * Len(SlotNames)
                   + (CHOOSE k \in 1..Len(SlotNames) : SlotNames[k] = n))]

\* the data array of an OrnamentGroup
BuildData(count, type, scaleBase, palette, seed, base) ==
    [k \in 1..count |->
        BuildItem(k - 1, count, type, scaleBase, palette, StreamDraws(seed, base, k - 1))]

(***************************************************************************)
(* Foliage dataset (useMemo, deps [])                                      *)
(***************************************************************************)
FoliageSlotNames == <<"scatterU", "scatterV", "scatterW", "treeH", "treeA", "treeS",
                      "random">>

FoliageDraws(seed, i) ==
    [n \in {FoliageSlotNames[k] : k \in 1..Len(FoliageSlotNames)} |->
        Rand(seed, i * Len(FoliageSlotNames)
                   + (CHOOSE k \in 1..Len(FoliageSlotNames) : FoliageSlotNames[k] = n))]

BuildFoliageItem(rnd) ==
    [scatter |-> getRandomSpherePoint(SCATTER_RADIUS, rnd["scatterU"],
                                      rnd["scatterV"], rnd["scatterW"]),
     tree    |-> getTreePoint(TREE_HEIGHT, TREE_RADIUS_BASE, DefaultYOffset,
                              rnd["treeH"], rnd["treeA"], rnd["treeS"]),
     random  |-> rnd["random"]]

BuildFoliageData(count, seed) ==
    [k \in 1..count |-> BuildFoliageItem(FoliageDraws(seed, k - 1))]

(***************************************************************************)
(* The scene: component instances and their props                          *)
(***************************************************************************)
\* element counts of the model (the scene uses 14000, 250 and 100)
FoliageCount == 2
SphereCount == 2
BoxCount == 2
MaxFrames == 2

Types == {"SPHERE", "BOX"}
\* the components with a frame callback, in the order Experience renders them
MountOrder == <<"camera", "foliage", "SPHERE", "BOX", "dust", "stars">>
Components == {MountOrder[k] : k \in 1..Len(MountOrder)}
TreeMorphState == {"SCATTERED", "TREE_SHAPE"}

\* frame deltas: 0, 1/60 s, and a one second hitch (a tab that was hidden)
DeltaTicks == {0, 3, TicksPerSecond}

\* the props Ornaments passes to each OrnamentGroup
OrnamentProps(type) ==
    IF type = "SPHERE"
    THEN [count |-> SphereCount, scaleBase |-> 250, palette |-> Some(spherePalette)]
    ELSE [count |-> BoxCount, scaleBase |-> 400, palette |-> Some(giftPalette)]

\* where each group's draws start in the stream of one render pass
StreamBase(type) ==
    IF type = "SPHERE" THEN FoliageCount * Len(FoliageSlotNames)
    ELSE FoliageCount * Len(FoliageSlotNames) + SphereCount * Len(SlotNames)

\* every dataset a render pass can build, by the stream the generator runs
OrnamentDataOf ==
    [type \in Types, seed \in Seeds |->
        BuildData(OrnamentProps(type).count, type, OrnamentProps(type).scaleBase,
                  OrnamentProps(type).palette, seed, StreamBase(type))]

FoliageDataOf == [seed \in Seeds |-> BuildFoliageData(FoliageCount, seed)]

VARIABLES
    treeState,       \* App: useState(TreeMorphState.TREE_SHAPE)
    refs,            \* component -> whether its meshRef / materialRef / group ref is set
    foliageProgress, \* Foliage: progressRef.current
    uTime,           \* Foliage material: uniforms.uTime.value
    uProgress,       \* Foliage material: uniforms.uProgress.value
    foliageData,     \* Foliage: the memoized attribute arrays
    ornProgress,     \* OrnamentGroup type -> progressRef.current
    data,            \* OrnamentGroup type -> the memoized data array
    instanceMatrix,  \* OrnamentGroup type -> the transform set for every instance
    instanceColor,   \* OrnamentGroup type -> the color set for every instance
    cameraRotY,      \* CameraRig: group.rotation.y
    dustTime,        \* GoldenDust material: uniforms.uTime.value
    starTime,        \* BackgroundStars material: uniforms.uTime.value
    elapsedTime,     \* the clock of the render loop
    frames,          \* number of frames rendered
    rng,             \* Math.random: the stream segment the last build read
    build,           \* a single run of a function on drawn inputs (SpecBuild, SpecGen)
    phase            \* "run", or "hold" once MorphState is held (SpecHold)

vars == <<treeState, refs, foliageProgress, uTime, uProgress, foliageData, ornProgress,
          data, instanceMatrix, instanceColor, cameraRotY, dustTime, starTime,
          elapsedTime, frames, rng, build, phase>>

(***************************************************************************)
(* Morph controller                                                        *)
(***************************************************************************)
FoliageSpeedSlow == 15 - 3

\* const speed = 1.5 (in tenths)
FoliageSpeed == 15

LerpSpeedSwapped(type) == IF type = "BOX" THEN 18 ELSE 12

\* const lerpSpeed = type === 'BOX' ? 1.2 : 1.8 (in tenths)
LerpSpeed(type) == IF type = "BOX" THEN 12 ELSE 18

\* target = state === TREE_SHAPE ? 1.0 : 0.0
Target(state) == IF state = "TREE_SHAPE" THEN Micro ELSE 0

\* progressRef.current += (target - progressRef.current) * speed * delta
ProgressStep(p, target, speed10, dt) ==
    p + MulDiv(target - p, speed10 * dt, 10 * TicksPerSecond)

Cube(x) == FMul(FMul(x, x), x)

\* cubic ease: t < 0.5 ? 4*t*t*t : 1 - pow(-2*t + 2, 3) / 2
EaseInOutCubic(t) ==
    IF 2 * t < Micro THEN 4 * Cube(t)
    ELSE Micro - DivRound(Cube(2 * Micro - 2 * t), 2)

(***************************************************************************)
(* Transform evaluator: the body of data.forEach in OrnamentGroup useFrame *)
(***************************************************************************)
\* seconds * rate for a time in ticks and a rate in milli-units
TimeTimes(time, rate) == MulDiv(rate, time, TicksPerSecond)

ItemTransform(item, easeT, time) ==
    LET x        == Lerp(item.scatter[1], item.tree[1], easeT)
        y        == Lerp(item.scatter[2], item.tree[2], easeT)
        z        == Lerp(item.scatter[3], item.tree[3], easeT)
        floatY   == Scaled(DivRound(Micro - easeT, 5),
                           Sin(TimeTimes(time, item.speed) + item.offset))
        scalePop == MMul(item.scale,
                         800 + MMul(200, Sin(TimeTimes(time, Milli) + item.offset)))
        sv       == item.scaleVector
    IN  [position |-> <<x, y + floatY, z>>,
         rotation |-> <<item.rotation[1] + Scaled(Micro - easeT, TimeTimes(time, 200)),
                        item.rotation[2] + TimeTimes(time, 100),
                        item.rotation[3]>>,
         scale    |-> <<MMul(scalePop, sv[1]), MMul(scalePop, sv[2]),
                        MMul(scalePop, sv[3])>>]

\* an instance buffer before anything was written to it
ZeroTransform == [position |-> <<0, 0, 0>>, rotation |-> <<0, 0, 0>>, scale |-> <<0, 0, 0>>]

(***************************************************************************)
(* Frame callbacks (useFrame), one per component instance                  *)
(***************************************************************************)
\* CameraRig: group.current.rotation.y += delta * 0.05 (micro-radians)
CameraRigFrame(dt) ==
    cameraRotY' = IF refs["camera"]
                  THEN cameraRotY + MulDiv(50 * Milli, dt, TicksPerSecond)
                  ELSE cameraRotY

\* Foliage useFrame
FoliageFrame(dt) ==
    IF ~refs["foliage"]
    THEN UNCHANGED <<uTime, foliageProgress, uProgress>>
    ELSE /\ uTime' = uTime + dt
         /\ foliageProgress' = ProgressStep(foliageProgress, Target(treeState),
                                            FoliageSpeed, dt)
         /\ uProgress' = foliageProgress'

OrnamentProgressAfterNoGuard(type, dt) ==
    ProgressStep(ornProgress[type], Target(treeState), LerpSpeed(type), dt)

\* OrnamentGroup useFrame: progressRef.current after the callback
OrnamentProgressAfter(type, dt) ==
    IF ~refs[type] THEN ornProgress[type]
    ELSE ProgressStep(ornProgress[type], Target(treeState), LerpSpeed(type), dt)

\* OrnamentGroup useFrame: the instance transforms after the callback
OrnamentMatrixAfter(type, dt, time) ==
    IF ~refs[type] THEN instanceMatrix[type]
    ELSE LET easeT == EaseInOutCubic(OrnamentProgressAfter(type, dt))
         IN  [i \in DOMAIN data[type] |-> ItemTransform(data[type][i], easeT, time)]

OrnamentGroupFrame(dt) ==
    /\ ornProgress' = [type \in Types |-> OrnamentProgressAfter(type, dt)]
    /\ instanceMatrix' = [type \in Types |-> OrnamentMatrixAfter(type, dt, elapsedTime')]

\* GoldenDust useFrame
GoldenDustFrame == dustTime' = IF refs["dust"] THEN elapsedTime' ELSE dustTime

\* BackgroundStars useFrame
BackgroundStarsFrame == starTime' = IF refs["stars"] THEN elapsedTime' ELSE starTime

(***************************************************************************)
(* Actions                                                                 *)
(***************************************************************************)
FrameStepWritesState(dt) ==
    /\ frames' = frames + 1
    /\ elapsedTime' = elapsedTime + dt
    /\ CameraRigFrame(dt)
    /\ FoliageFrame(dt)
    /\ OrnamentGroupFrame(dt)
    /\ GoldenDustFrame
    /\ BackgroundStarsFrame
    /\ treeState' = IF foliageProgress' >= Micro THEN "SCATTERED" ELSE treeState
    /\ UNCHANGED <<refs, foliageData, data, instanceColor, rng, build, phase>>

\* one tick of the render loop: the clock advances by dt and every subscribed
\* frame callback runs with the same delta
FrameStep(dt) ==
    /\ frames' = frames + 1
    /\ elapsedTime' = elapsedTime + dt
    /\ CameraRigFrame(dt)
    /\ FoliageFrame(dt)
    /\ OrnamentGroupFrame(dt)
    /\ GoldenDustFrame
    /\ BackgroundStarsFrame
    /\ UNCHANGED <<treeState, refs, foliageData, data, instanceColor, rng, build, phase>>

Frame(dt) == frames < MaxFrames /\ FrameStep(dt)

\* useEffect [data]: set the instance colors, when the mesh exists
ColorsAfterEffect(type, mounted, items) ==
    IF ~mounted THEN instanceColor[type]
    ELSE [i \in DOMAIN items |-> items[i].color]

\* the segment of the Math.random stream the next build reads
NextSegment(seed) == (seed % MaxSeed) + 1

\* useMemo [count, type, scaleBase, palette] on a re-render of Ornaments: the
\* palette prop is a new array each time, so the memo is recomputed
OrnamentDataAfterRender(type, seed) == OrnamentDataOf[type, seed]

ToggleResetsProgress(s) ==
    /\ treeState' = s
    /\ IF s = treeState
       THEN UNCHANGED <<data, instanceColor, rng, foliageProgress, ornProgress>>
       ELSE /\ rng' = NextSegment(rng)
            /\ data' = [type \in Types |-> OrnamentDataAfterRender(type, rng')]
            /\ instanceColor' =
                   [type \in Types |-> ColorsAfterEffect(type, refs[type], data'[type])]
            /\ foliageProgress' = 0
            /\ ornProgress' = [type \in Types |-> 0]
    /\ UNCHANGED <<refs, uTime, uProgress, foliageData, instanceMatrix, cameraRotY,
                   dustTime, starTime, elapsedTime, frames, build, phase>>

\* Overlay onClick -> onToggle(s) = setTreeState(s), and the re-render it causes
Toggle(s) ==
    /\ treeState' = s
    /\ IF s = treeState
       THEN UNCHANGED <<data, instanceColor, rng>>
       ELSE /\ rng' = NextSegment(rng)
            /\ data' = [type \in Types |-> OrnamentDataAfterRender(type, rng')]
            /\ instanceColor' =
                   [type \in Types |-> ColorsAfterEffect(type, refs[type], data'[type])]
    /\ UNCHANGED <<refs, foliageProgress, uTime, uProgress, foliageData, ornProgress,
                   instanceMatrix, cameraRotY, dustTime, starTime, elapsedTime, frames,
                   build, phase>>

\* a component's ref gets set (its element is created and committed, in tree
\* order); for an OrnamentGroup the useEffect then sets the instance colors
Attach(c) ==
    /\ ~refs[c]
    /\ \A k \in 1..Len(MountOrder) :
          MountOrder[k] = c => \A j \in 1..(k - 1) : refs[MountOrder[j]]
    /\ refs' = [refs EXCEPT ![c] = TRUE]
    /\ instanceColor' = [type \in Types |->
                            IF type = c THEN ColorsAfterEffect(type, TRUE, data[type])
                            ELSE instanceColor[type]]
    /\ UNCHANGED <<treeState, foliageProgress, uTime, uProgress, foliageData, ornProgress,
                   data, instanceMatrix, cameraRotY, dustTime, starTime, elapsedTime,
                   frames, rng, build, phase>>

IdleBuild == [pc |-> "idle"]

\* const [treeState, setTreeState] = useState(TreeMorphState.TREE_SHAPE)
InitialTreeState == "TREE_SHAPE"

InitialProgressMatching == Target(InitialTreeState)

\* useRef(0)
InitialProgress == 0

\* first render: nothing committed yet
SceneInit ==
    /\ treeState = InitialTreeState
    /\ refs = [c \in Components |-> FALSE]
    /\ foliageProgress = InitialProgress
    /\ uTime = 0
    /\ uProgress = 0
    /\ ornProgress = [type \in Types |-> InitialProgress]
    /\ rng = 1
    /\ foliageData = FoliageDataOf[rng]
    /\ data = [type \in Types |-> OrnamentDataOf[type, rng]]
    /\ instanceMatrix = [type \in Types |->
                            [i \in 1..OrnamentProps(type).count |-> ZeroTransform]]
    /\ instanceColor = [type \in Types |->
                            [i \in 1..OrnamentProps(type).count |-> "unset"]]
    /\ cameraRotY = 0
    /\ dustTime = 0
    /\ starTime = 0
    /\ elapsedTime = 0
    /\ frames = 0

Init == SceneInit /\ build = IdleBuild /\ phase = "run"

Next ==
    \/ \E dt \in DeltaTicks : Frame(dt)
    \/ \E s \in TreeMorphState : Toggle(s)
    \/ \E c \in Components : Attach(c)

Spec == Init /\ [][Next]_vars

(***************************************************************************)
(* Claims checked under Spec                                               *)
(***************************************************************************)
MorphGroups == {"foliage"} \cup Types

\* a morphing group's progress
ProgressOf(g) == IF g = "foliage" THEN foliageProgress ELSE ornProgress[g]

\* C1: after every frame update each group's progress is within [0,1] and has
\* not passed its target
C1_ProgressBoundedNoOvershoot ==
    [][frames' # frames =>
         /\ foliageProgress' \in 0..Micro
         /\ \A type \in Types : ornProgress'[type] \in 0..Micro
         /\ (foliageProgress <= Target(treeState) => foliageProgress' <= Target(treeState))
         /\ (foliageProgress >= Target(treeState) => foliageProgress' >= Target(treeState))
         /\ \A type \in Types :
               /\ ornProgress[type] <= Target(treeState)
                     => ornProgress'[type] <= Target(treeState)
               /\ ornProgress[type] >= Target(treeState)
                     => ornProgress'[type] >= Target(treeState)]_vars

\* C2: no step (toggle, re-render or frame) changes a record of any dataset:
\* every dataset stays the one of the first build
C2_DatasetBuiltOnce ==
    [][data' = data /\ foliageData' = foliageData]_vars

\* C3: across a frame the progress of a group changes by at most k*dt and the
\* interpolated x and z of an instance that was placed by the frame before move
\* by at most 3*k*dt*|formation - scatter| (3 is the steepest slope of the
\* ease), up to one milli-unit of rounding per term
C3_FrameDeltaBounded ==
    [][frames' # frames =>
         LET dt == elapsedTime' - elapsedTime
             MaxStep(speed10) == MulDiv(Micro, speed10 * dt, 10 * TicksPerSecond) + 1
         IN  /\ Abs(foliageProgress' - foliageProgress) <= MaxStep(FoliageSpeed)
             /\ \A type \in Types :
                  /\ Abs(ornProgress'[type] - ornProgress[type]) <= MaxStep(LerpSpeed(type))
                  /\ \A i \in DOMAIN data'[type] :
                       instanceMatrix[type][i] # ZeroTransform =>
                          \A ax \in {1, 3} :
                             Abs(instanceMatrix'[type][i].position[ax]
                                 - instanceMatrix[type][i].position[ax])
                             <= MulDiv(Abs(data'[type][i].tree[ax]
                                           - data'[type][i].scatter[ax]),
                                       3 * LerpSpeed(type) * dt, 10 * TicksPerSecond) + 4]_vars

\* C4 (as claimed): before the first frame every group's progress is the value
\* matching the initial MorphState
C4_InitialProgressMatchesState ==
    frames = 0 =>
        /\ foliageProgress = Target(InitialTreeState)
        /\ \A type \in Types : ornProgress[type] = Target(InitialTreeState)

\* C4 (amended): before the first frame every group's progress is 0 whatever
\* MorphState is, and a first frame of positive dt with TREE_SHAPE moves every
\* attached group's progress above 0: a startup transition
C4_InitialProgressZero ==
    [][/\ frames = 0 => foliageProgress = 0 /\ \A type \in Types : ornProgress[type] = 0
       /\ (frames = 0 /\ frames' = 1 /\ treeState = "TREE_SHAPE"
             /\ elapsedTime' > elapsedTime) =>
             /\ refs["foliage"] => foliageProgress' > 0
             /\ \A type \in Types : refs[type] => ornProgress'[type] > 0]_vars

C4_Witness ==
    /\ frames = 1
    /\ treeState = InitialTreeState
    /\ \A c \in Components : refs[c]
    /\ foliageProgress > 0
    /\ \A type \in Types : ornProgress[type] > 0

\* C7: a frame step leaves MorphState unchanged, and MorphState changes only
\* in a step of the toggle callback, to the value of the button pressed
C7_OnlyToggleWritesState ==
    [][/\ frames' # frames => treeState' = treeState
       /\ treeState' # treeState =>
             \E s \in TreeMorphState : Toggle(s) /\ treeState' = s]_vars

C7_Witness ==
    /\ treeState = "SCATTERED"
    /\ frames = MaxFrames
    /\ \A c \in Components : refs[c]
    /\ dustTime > 0 /\ starTime > 0 /\ cameraRotY > 0 /\ uTime > 0

\* C9: in a frame, a group whose ref is missing keeps its progress, time and
\* instance transforms, and the groups whose ref is set still run
C9_MissingRefIsNoOp ==
    [][frames' # frames =>
         LET dt == elapsedTime' - elapsedTime
         IN  /\ ~refs["foliage"] =>
                   UNCHANGED <<foliageProgress, uTime, uProgress>>
             /\ \A type \in Types :
                   ~refs[type] => /\ ornProgress'[type] = ornProgress[type]
                                  /\ instanceMatrix'[type] = instanceMatrix[type]
             /\ ~refs["camera"] => cameraRotY' = cameraRotY
             /\ ~refs["dust"] => dustTime' = dustTime
             /\ ~refs["stars"] => starTime' = starTime
             /\ refs["camera"] /\ dt > 0 => cameraRotY' > cameraRotY
             /\ refs["foliage"] => uTime' = uTime + dt
             /\ \A type \in Types :
                   refs[type] => \A i \in DOMAIN data[type] :
                                    instanceMatrix'[type][i] # ZeroTransform]_vars

C9_Witness ==
    /\ frames > 0
    /\ refs["foliage"] /\ uTime > 0 /\ foliageProgress > 0
    /\ ~refs["SPHERE"]
    /\ ornProgress["SPHERE"] = 0
    /\ \A i \in DOMAIN data["SPHERE"] : instanceMatrix["SPHERE"][i] = ZeroTransform

\* C14: a change of MorphState (the toggle and its re-render) leaves the
\* progress of every group and the progress uniform unchanged, and a frame
\* computes each attached group's progress from the value it had before the
\* frame and the target of the current MorphState
C14_ToggleKeepsProgress ==
    [][/\ treeState' # treeState =>
             /\ foliageProgress' = foliageProgress
             /\ ornProgress' = ornProgress
             /\ uProgress' = uProgress
       /\ frames' # frames =>
             LET dt     == elapsedTime' - elapsedTime
                 target == IF treeState = "TREE_SHAPE" THEN Micro ELSE 0
                 Moved(p, k10) == p + MulDiv(target - p, k10 * dt, 10 * TicksPerSecond)
             IN  /\ refs["foliage"] => foliageProgress' = Moved(foliageProgress, 15)
                 /\ refs["SPHERE"] => ornProgress'["SPHERE"] = Moved(ornProgress["SPHERE"], 18)
                 /\ refs["BOX"] => ornProgress'["BOX"] = Moved(ornProgress["BOX"], 12)]_vars

\* a frame of 1/60 s toward the tree, the SCATTER click, then a frame of positive
\* dt that moved the progress back down from where the first frame left it
C14_Witness ==
    /\ frames = MaxFrames
    /\ treeState = "SCATTERED"
    /\ \A c \in Components : refs[c]
    /\ foliageProgress > 0
    /\ foliageProgress < ProgressStep(0, Micro, FoliageSpeed, TicksPerSecond \div 60)

\* C15: in every reachable state the progress of every group is neither exactly
\* 0 nor exactly 1
C15_ProgressNeverExact ==
    \A g \in MorphGroups : ProgressOf(g) # 0 /\ ProgressOf(g) # Micro

(***************************************************************************)
(* SpecBuild: one iteration of the dataset builder on drawn inputs          *)
(***************************************************************************)
BuildPalettes == {Absent, Some(<<>>), Some(spherePalette), Some(giftPalette),
                  Some(<<ExclusionColor>>)}
ColorDraws == {0, 199, 200, 599, 600, 799, 800, 999}
RollDraws == {0, 39, 40, 199, 200, 999}
TierDraws == {0, 999}

BuildDraws ==
    {[n \in Slots |->
        CASE n = "color" -> u
          [] n = "roll" -> r
          [] n = "sphereBase" -> b
          [] n = "large" -> l
          [] n = "medium" -> m
          [] OTHER -> 250] :
     u \in ColorDraws, r \in RollDraws, b \in TierDraws, l \in TierDraws, m \in TierDraws}

BuildInit ==
    /\ SceneInit
    /\ phase = "run"
    /\ \E type \in Types, palette \in BuildPalettes, rnd \in BuildDraws :
          build = [pc |-> "drawn", type |-> type,
                   scaleBase |-> OrnamentProps(type).scaleBase,
                   palette |-> palette, rnd |-> rnd, item |-> [color |-> "none"]]

BuildOne ==
    /\ build.pc = "drawn"
    /\ build' = [build EXCEPT
                    !.pc = "built",
                    !.item = BuildItem(0, 1, build.type, build.scaleBase,
                                       build.palette, build.rnd)]
    /\ UNCHANGED <<treeState, refs, foliageProgress, uTime, uProgress, foliageData,
                   ornProgress, data, instanceMatrix, instanceColor, cameraRotY,
                   dustTime, starTime, elapsedTime, frames, rng, phase>>

SpecBuild == BuildInit /\ [][BuildOne]_vars

\* C8: a sphere record's scale is in the 2.2-2.4 tier when its color is not the
\* exclusion color and its roll is below 0.04, in the 1.4-1.8 tier when its
\* color is not the exclusion color and its roll is in [0.04, 0.20), and in the
\* base tier 0.8-1.2 otherwise, so always for the exclusion color
C8_SphereSizeTiers ==
    (build.pc = "built" /\ build.type = "SPHERE") =>
        LET c  == build.item.color
            r  == build.rnd["roll"]
            sb == build.scaleBase
            sc == build.item.scale
        IN  /\ (c # "#8a0000" /\ r < 40) => (2200 * sb <= sc /\ sc <= 2400 * sb)
            /\ (c # "#8a0000" /\ 40 <= r /\ r < 200)
                  => (1400 * sb <= sc /\ sc <= 1800 * sb)
            /\ (c = "#8a0000" \/ r >= 200) => (800 * sb <= sc /\ sc <= 1200 * sb)

C8_Witness ==
    /\ build.pc = "built"
    /\ build.type = "SPHERE"
    /\ build.item.color = "#8a0000"
    /\ build.rnd["roll"] < 40
    /\ build.item.scale <= 1200 * build.scaleBase

\* C10: the color lookup is defined for every palette: the default color for an
\* absent or empty palette, otherwise the palette element at floor(u * n),
\* which is an index of the palette
C10_PaletteLookupDefined ==
    build.pc = "built" =>
        LET pal == build.palette
            n   == Len(pal.colors)
            idx == (build.rnd["color"] * n) \div Milli
        IN  IF ~pal.present \/ n = 0
            THEN build.item.color = "#d4af37"
            ELSE /\ idx \in 0..(n - 1)
                 /\ build.item.color = pal.colors[idx + 1]
                 /\ build.item.color # "undefined"

C10_Witness ==
    /\ build.pc = "built"
    /\ build.palette = Some(<<>>)
    /\ build.item.color = "#d4af37"

(***************************************************************************)
(* SpecFormed: the committed scene rendering at 60 frames per second with   *)
(* MorphState left at its initial value TREE_SHAPE                          *)
(***************************************************************************)
\* the scene once every component is committed: all refs set, colors applied
CommittedInit ==
    /\ treeState = InitialTreeState
    /\ refs = [c \in Components |-> TRUE]
    /\ foliageProgress = InitialProgress
    /\ uTime = 0
    /\ uProgress = 0
    /\ ornProgress = [type \in Types |-> InitialProgress]
    /\ rng = 1
    /\ foliageData = FoliageDataOf[rng]
    /\ data = [type \in Types |-> OrnamentDataOf[type, rng]]
    /\ instanceMatrix = [type \in Types |->
                            [i \in 1..OrnamentProps(type).count |-> ZeroTransform]]
    /\ instanceColor = [type \in Types |->
                            [i \in DOMAIN data[type] |-> data[type][i].color]]
    /\ cameraRotY = 0
    /\ dustTime = 0
    /\ starTime = 0
    /\ elapsedTime = 0
    /\ frames = 0
    /\ build = IdleBuild
    /\ phase = "run"

\* 1/60 second in ticks
SixtiethTicks == TicksPerSecond \div 60

\* 10/k seconds of 1/60 s frames for the foliage rate k
C6Frames == (10 * 10 * 60) \div 15

SteadyFrame == frames < C6Frames /\ FrameStep(SixtiethTicks)

SpecFormed == CommittedInit /\ [][SteadyFrame]_vars

\* C6: after 400 frames of 1/60 s with MorphState fixed at Formed the foliage
\* progress exceeds 0.9999
C6_FoliageConverged ==
    frames = C6Frames => foliageProgress > Micro - Micro \div 10000

C6_Witness ==
    /\ frames = C6Frames
    /\ treeState = "TREE_SHAPE"
    /\ uTime = C6Frames * SixtiethTicks
    /\ uProgress = foliageProgress

\* C13: across a frame of a formed group (easeT = 1 before and after, time
\* increasing) the rotation of every instance on every axis is its base rotation
C13_FormedStopsSpinning ==
    [][\A type \in Types :
          (/\ refs[type]
           /\ EaseInOutCubic(ornProgress[type]) = Micro
           /\ EaseInOutCubic(ornProgress'[type]) = Micro
           /\ elapsedTime' > elapsedTime) =>
              \A i \in DOMAIN data[type] :
                 instanceMatrix'[type][i].rotation = data[type][i].rotation]_vars

(***************************************************************************)
(* SpecHold: the morph controllers alone.  After a bounded run of frames    *)
(* and toggles MorphState is held and frames keep occurring for ever.  The  *)
(* clock and the instance transforms do not feed back into progress and are *)
(* not advanced here, which keeps the state space finite.                   *)
(***************************************************************************)
\* held frame deltas: 1/2 s and 10/9 s
HoldDeltas == {90, 200}

\* the progress updates of one frame: Foliage and both OrnamentGroups
ProgressFrame(dt) ==
    /\ foliageProgress' = IF ~refs["foliage"] THEN foliageProgress
                          ELSE ProgressStep(foliageProgress, Target(treeState),
                                            FoliageSpeed, dt)
    /\ uProgress' = IF ~refs["foliage"] THEN uProgress ELSE foliageProgress'
    /\ ornProgress' = [type \in Types |-> OrnamentProgressAfter(type, dt)]
    /\ UNCHANGED <<treeState, refs, uTime, foliageData, data, instanceMatrix,
                   instanceColor, cameraRotY, dustTime, starTime, elapsedTime, rng, build>>

RunToggle(s) == phase = "run" /\ Toggle(s)

RunFrame(dt) ==
    /\ phase = "run"
    /\ frames < MaxFrames
    /\ frames' = frames + 1
    /\ ProgressFrame(dt)
    /\ UNCHANGED phase

HoldStart ==
    /\ phase = "run"
    /\ phase' = "hold"
    /\ UNCHANGED <<treeState, refs, foliageProgress, uTime, uProgress, foliageData,
                   ornProgress, data, instanceMatrix, instanceColor, cameraRotY,
                   dustTime, starTime, elapsedTime, frames, rng, build>>

HeldFrame(dt) ==
    /\ phase = "hold"
    /\ ProgressFrame(dt)
    /\ UNCHANGED <<frames, phase>>

HoldNext ==
    \/ \E s \in TreeMorphState : RunToggle(s)
    \/ \E dt \in DeltaTicks : RunFrame(dt)
    \/ HoldStart
    \/ \E dt \in HoldDeltas : HeldFrame(dt)

\* the render loop never stops: a held frame always eventually happens
SpecHold ==
    /\ CommittedInit
    /\ [][HoldNext]_vars
    /\ WF_vars(HoldStart)
    /\ WF_vars(\E dt \in HoldDeltas : HeldFrame(dt))

\* within 1e-4 of the value matching MorphState
NearTarget(p) == Abs(p - Target(treeState)) <= Micro \div 10000

\* C5: once MorphState is held and frames keep occurring, every group's
\* progress comes within 1e-4 of its target and stays there
C5_HeldProgressConverges ==
    <>[](phase = "hold" /\ \A g \in MorphGroups : NearTarget(ProgressOf(g)))

(***************************************************************************)
(* SpecGen: one call of a generator function of utils/math.ts on drawn      *)
(* arguments, the degenerate ones included                                  *)
(***************************************************************************)
Generators == {"getRandomSpherePoint", "getTreePoint", "getTreeSpiralPoint"}

\* the largest index and point count drawn for getTreeSpiralPoint
GenMaxPoints == 2

GenRadii == {-TREE_RADIUS_BASE, 0, TREE_RADIUS_BASE}
GenDraws == {125, 500, 875}

GenCalls ==
    {[pc |-> "call", fn |-> fn, radius |-> radius, t |-> 0, totalPoints |-> 1,
      rnd |-> <<u, v, w>>, point |-> <<NaN, NaN, NaN>>] :
        fn \in {"getRandomSpherePoint", "getTreePoint"}, radius \in GenRadii,
        u \in GenDraws, v \in GenDraws, w \in GenDraws}
    \cup
    {[pc |-> "call", fn |-> "getTreeSpiralPoint", radius |-> radius, t |-> t,
      totalPoints |-> n, rnd |-> <<0, 0, 0>>, point |-> <<NaN, NaN, NaN>>] :
        radius \in GenRadii, t \in 0..GenMaxPoints, n \in 0..GenMaxPoints}

GenInit == SceneInit /\ phase = "run" /\ build \in GenCalls

\* a point of finite coordinates as numbers
FinitePoint(p) == [k \in DOMAIN p |-> Finite(p[k])]

\* what the call returns: no generator validates its arguments or throws
GenResult(c) ==
    CASE c.fn = "getRandomSpherePoint" ->
            FinitePoint(getRandomSpherePoint(c.radius, c.rnd[1], c.rnd[2], c.rnd[3]))
      [] c.fn = "getTreePoint" ->
            FinitePoint(getTreePoint(TREE_HEIGHT, c.radius, DefaultYOffset,
                                     c.rnd[1], c.rnd[2], c.rnd[3]))
      [] OTHER ->
            getTreeSpiralPoint(c.t, c.totalPoints, TREE_HEIGHT, c.radius, DefaultYOffset)

Generate ==
    /\ build.pc = "call"
    /\ build' = [build EXCEPT !.pc = "returned", !.point = GenResult(build)]
    /\ UNCHANGED <<treeState, refs, foliageProgress, uTime, uProgress, foliageData,
                   ornProgress, data, instanceMatrix, instanceColor, cameraRotY,
                   dustTime, starTime, elapsedTime, frames, rng, phase>>

SpecGen == GenInit /\ [][Generate]_vars

\* the unit direction the call's angles point to (milli-units); the returned
\* point is its radial distance times this direction, plus the height for the
\* two tree generators
GenDirection(c) ==
    IF c.fn = "getRandomSpherePoint"
    THEN LET theta == MMul(2 * PiMilli, c.rnd[1])
             phi   == Acos(2 * c.rnd[2] - Milli)
         IN  <<MMul(Sin(phi), Cos(theta)), MMul(Sin(phi), Sin(theta)), Cos(phi)>>
    ELSE LET angle == IF c.fn = "getTreePoint" THEN MMul(c.rnd[2], 2 * PiMilli)
                      ELSE c.t * GoldenAngleMilli
         IN  <<Cos(angle), 0, Sin(angle)>>

GenDegenerate(c) ==
    c.radius <= 0 \/ (c.fn = "getTreeSpiralPoint" /\ c.totalPoints = 0)

\* the returned point's distance along the direction of its angles, about the
\* axis for the two tree generators (negative: built from a negative radius)
GenRadial(c) ==
    LET d == GenDirection(c)
        h == IF c.fn = "getRandomSpherePoint" THEN c.point[2].v * d[2] ELSE 0
    IN  c.point[1].v * d[1] + h + c.point[3].v * d[3]

\* C11: a generator called with a radius <= 0, or the spiral with totalPoints
\* = 0, returns no point with a NaN or infinite coordinate and no point built
\* from a negative radius (a point on the far side from the direction of its
\* angles)
C11_GeneratorsGuardDegenerateInput ==
    (build.pc = "returned" /\ GenDegenerate(build)) =>
        /\ \A k \in 1..3 : build.point[k].kind = "finite"
        /\ GenRadial(build) >= 0

(***************************************************************************)
(* SpecEval: the two evaluation paths on one record.  The OrnamentGroup     *)
(* frame callback (host) and the Foliage vertex shader (GPU) are each run   *)
(* on the same positions, random seed, progress and time.                   *)
(***************************************************************************)
\* GLSL easeInOutCubic of the Foliage vertex shader
easeInOutCubic(x) ==
    IF 2 * x < Micro THEN 4 * FMul(FMul(x, x), x)
    ELSE Micro - DivRound(FMul(FMul(2 * Micro - 2 * x, 2 * Micro - 2 * x),
                               2 * Micro - 2 * x), 2)

\* GLSL mix(x, y, a) = x * (1 - a) + y * a
mix(x, y, a) == DivRound(FMul(x * Milli, Micro - a) + FMul(y * Milli, a), Milli)

\* the normal attribute: the foliage geometry defines none, so the shader reads
\* the default attribute value
FoliageNormal == <<0, 0, 0>>

\* main() of the vertex shader up to pos, for one vertex
FoliageVertex(aScatterPos, aTreePos, aRandom, uProgressValue, uTimeValue) ==
    LET t           == easeInOutCubic(uProgressValue)
        pos         == [k \in 1..3 |-> mix(aScatterPos[k], aTreePos[k], t)]
        breathe     == MMul(Sin(TimeTimes(uTimeValue, 2 * Milli) + aRandom * 10), 100)
        amplitude   == DivRound(Micro - t, 2)
        floatOffset == <<Scaled(amplitude, Sin(TimeTimes(uTimeValue, 500) + aRandom * 5)),
                         Scaled(amplitude, Cos(TimeTimes(uTimeValue, 300) + aRandom * 3)),
                         Scaled(amplitude, Sin(TimeTimes(uTimeValue, 700) + aRandom * 2))>>
    IN  [t |-> t, mixed |-> pos, floatOffset |-> floatOffset,
         pos |-> [k \in 1..3 |->
                     pos[k] + MMul(FoliageNormal[k], breathe) + floatOffset[k]]]

\* the OrnamentGroup callback for one item: the blend factor, the interpolated
\* position and what the callback adds to it
OrnamentVertex(item, progress, time) ==
    LET easeT == EaseInOutCubic(progress)
        tr    == ItemTransform(item, easeT, time)
        mixed == [k \in 1..3 |-> Lerp(item.scatter[k], item.tree[k], easeT)]
    IN  [t |-> easeT, mixed |-> mixed,
         floatOffset |-> [k \in 1..3 |-> tr.position[k] - mixed[k]],
         pos |-> tr.position]

EvalProgress == {0, Micro \div 4, Micro \div 2, (3 * Micro) \div 4, Micro}
EvalTimes == {0, TicksPerSecond \div 2, TicksPerSecond, 3 * TicksPerSecond}
EvalItems == {OrnamentDataOf[type, 1][i] : type \in Types, i \in {1, 2}}
            \cup {[OrnamentDataOf["SPHERE", 1][1] EXCEPT !.offset = 0]}

EvalInit ==
    /\ SceneInit
    /\ phase = "run"
    /\ \E item \in EvalItems, p \in EvalProgress, time \in EvalTimes :
          build = [pc |-> "call", item |-> item, progress |-> p, time |-> time,
                   host |-> OrnamentVertex(item, 0, 0),
                   gpu |-> FoliageVertex(item.scatter, item.tree, 0, 0, 0)]

\* both paths evaluate the record; the shader's aRandom is the random draw the
\* item's phase (offset = Math.random() * 100) was made from
Evaluate ==
    /\ build.pc = "call"
    /\ build' = [build EXCEPT
                    !.pc = "evaluated",
                    !.host = OrnamentVertex(build.item, build.progress, build.time),
                    !.gpu = FoliageVertex(build.item.scatter, build.item.tree,
                                          build.item.offset \div 100,
                                          build.progress, build.time)]
    /\ UNCHANGED <<treeState, refs, foliageProgress, uTime, uProgress, foliageData,
                   ornProgress, data, instanceMatrix, instanceColor, cameraRotY,
                   dustTime, starTime, elapsedTime, frames, rng, phase>>

SpecEval == EvalInit /\ [][Evaluate]_vars

\* C12: for the same record, progress and time the host path and the GPU path
\* compute the same eased blend factor, the same interpolated position and the
\* same secondary floating offset
C12_PathsEquivalent ==
    build.pc = "evaluated" =>
        /\ build.host.t = build.gpu.t
        /\ build.host.mixed = build.gpu.mixed
        /\ build.host.floatOffset = build.gpu.floatOffset

(***************************************************************************)
(* SpecRace: the committed scene from construction, every group at progress *)
(* 0 and receiving every frame.  MorphState may be set before the first     *)
(* frame and is held from then on; every frame delta has 1.8 * dt <= 1.     *)
(***************************************************************************)
\* number of frames of a run
RaceFrames == 5

\* the largest delta with 1.8 * dt <= 1, in ticks (5/9 s)
RaceMaxTicks == (10 * TicksPerSecond) \div 18

RaceDeltas == {0, SixtiethTicks, TicksPerSecond \div 6, RaceMaxTicks}

RaceToggle(s) == frames = 0 /\ Toggle(s)

RaceFrame(dt) == frames < RaceFrames /\ FrameStep(dt)

RaceNext ==
    \/ \E s \in TreeMorphState : RaceToggle(s)
    \/ \E dt \in RaceDeltas : RaceFrame(dt)

SpecRace == CommittedInit /\ [][RaceNext]_vars

\* a group's distance to the target of the current MorphState
Distance(g) == Abs(Target(treeState) - ProgressOf(g))

\* C16: the sphere ornaments (k = 1.8) are at least as close to the target as
\* the foliage (k = 1.5), which is at least as close as the boxes (k = 1.2)
C16_GroupsKeepOrder ==
    /\ Distance("SPHERE") <= Distance("foliage")
    /\ Distance("foliage") <= Distance("BOX")

C16_Witness ==
    /\ frames = RaceFrames
    /\ treeState = "TREE_SHAPE"
    /\ elapsedTime > TicksPerSecond
    /\ Distance("SPHERE") < Distance("foliage")
    /\ Distance("foliage") < Distance("BOX")
    /\ Distance("BOX") < Micro \div 2

=============================================================================
